---- MODULE Spec2Model ----
(***************************************************************************)
(* Model of router-events: the device registry (database.py), the HTTP     *)
(* handlers and the background manufacturer lookup (main.py).              *)
(*                                                                         *)
(* Time is an integer number of milliseconds.  Every `await` of the code   *)
(* is a point where other handlers and tasks may run, so a background      *)
(* lookup is a sequence of actions, one per awaited call.  A store call    *)
(* is one atomic read or write of one row and may raise.                   *)
(*                                                                         *)
(* The specifications of the lookup pipeline (Spec and its variants) take  *)
(* a request handler as one action and keep of an ingest event only what   *)
(* the pipeline reads: the row and its name.  The specification of the     *)
(* front door (SpecIngest) follows the handlers of POST /api/events and    *)
(* PUT /api/devices/{mac} await by await, with the column last_seen, the   *)
(* notifications they fire and the status they answer.                     *)
(*                                                                         *)
(* A MAC is an opaque key in all of them but SpecCase, which sends one     *)
(* address in two letter cases to a table whose column mac has either      *)
(* collation; the variable `collation` matters there only.                 *)
(***************************************************************************)
EXTENDS Integers, Sequences, FiniteSets, Bags, TLC

(* ------------------------------ bounds --------------------------------- *)
\* number of background task slots (BackgroundTasks entries alive at once)
MaxTasks == 2
\* number of interval-sized clock steps taken inside one cooldown period
MaxFine == 1
\* number of cooldown-sized clock jumps
MaxCoarse == 1
\* number of wait_if_needed calls of one caller of the rate-limiter harness
MaxCalls == 3
\* number of concurrent callers of the rate-limiter harness
MaxCallers == 2
\* number of half-interval clock steps of the rate-limiter harness
MaxHalfSteps == 6
\* number of handlers of POST /api/events and PUT /api/devices in flight at once
MaxHandlers == 2

(* --------------------------- program constants ------------------------- *)
\* RateLimiter(interval=0.5): 0.5 s, in ms
Interval == 500
\* needs_manufacturer_lookup: "> 300" seconds, in ms
Cooldown == 300000
\* the three provider endpoints, in the order of the list `apis`
NumApis == 3

\* the MAC addresses of the requests
MACS == {"m1"}
CallerIds == 1..MaxCallers

(* ------------------------------ strings -------------------------------- *)
\* A Python str is a sequence of one-character strings; None is a value of
\* its own that is no str.
None == <<"<None>">>
NoTime == -1

S_NotFound == <<"N","o","t"," ","F","o","u","n","d">>
\* "Not Found" as a provider may spell it in lower case
S_notfound == <<"n","o","t"," ","f","o","u","n","d">>
S_error == <<"e","r","r","o","r">>
S_Unknown == <<"U","n","k","n","o","w","n">>
S_Acme == <<"A","c","m","e">>
S_AcmeNl == <<" ","A","c","m","e","\n">>
S_ErrorMac == <<"E","r","r","o","r",":"," ","m","a","c">>
S_Empty == <<>>
S_pcPadded == <<" ","p","c"," ">>

Whitespace == {" ", "\n", "\t", "\r"}

UpperToLower ==
  [c \in {"A","B","C","D","E","F","G","H","I","J","K","L","M",
          "N","O","P","Q","R","S","T","U","V","W","X","Y","Z"} |->
     CASE c = "A" -> "a" [] c = "B" -> "b" [] c = "C" -> "c" [] c = "D" -> "d"
       [] c = "E" -> "e" [] c = "F" -> "f" [] c = "G" -> "g" [] c = "H" -> "h"
       [] c = "I" -> "i" [] c = "J" -> "j" [] c = "K" -> "k" [] c = "L" -> "l"
       [] c = "M" -> "m" [] c = "N" -> "n" [] c = "O" -> "o" [] c = "P" -> "p"
       [] c = "Q" -> "q" [] c = "R" -> "r" [] c = "S" -> "s" [] c = "T" -> "t"
       [] c = "U" -> "u" [] c = "V" -> "v" [] c = "W" -> "w" [] c = "X" -> "x"
       [] c = "Y" -> "y" [] c = "Z" -> "z"]

\* str.lower()
Lower(s) == [i \in DOMAIN s |-> IF s[i] \in DOMAIN UpperToLower
                                  THEN UpperToLower[s[i]] ELSE s[i]]

\* `sub in s`
Contains(s, sub) ==
  \E i \in 0..(Len(s) - Len(sub)) : SubSeq(s, i + 1, i + Len(sub)) = sub

\* str.strip()
Strip(s) ==
  LET keep == {i \in DOMAIN s : s[i] \notin Whitespace}
  IN IF keep = {} THEN <<>>
     ELSE SubSeq(s, CHOOSE i \in keep : \A j \in keep : i <= j,
                    CHOOSE i \in keep : \A j \in keep : i >= j)

\* Python truthiness of an Optional[str]
Truthy(s) == s # None /\ s # <<>>

\* `a or b`
Or(a, b) == IF Truthy(a) THEN a ELSE b

(* ------------------------------ the store ------------------------------ *)
\* A row of table `devices`; `present` is FALSE for a MAC with no row.
NoDevice ==
  [present |-> FALSE, name |-> None, notify |-> FALSE, manufacturer |-> None,
   manufacturer_status |-> "pending", manufacturer_last_attempt |-> NoTime]

\* Device(mac=..., name=..., notify=False): the column defaults
NewDevice(name) ==
  [present |-> TRUE, name |-> name, notify |-> FALSE, manufacturer |-> None,
   manufacturer_status |-> "pending", manufacturer_last_attempt |-> NoTime]

\* get_manufacturer without ERROR in the test of line 119
db_get_manufacturer_unknown_only(row) ==
  IF ~row.present THEN None
  ELSE IF row.manufacturer_status = "found" /\ Truthy(row.manufacturer)
         THEN row.manufacturer
  ELSE IF row.manufacturer_status = "unknown" THEN S_Unknown
  ELSE None

\* Database.get_manufacturer: the cached answer, None when there is none
db_get_manufacturer(row) ==
  IF ~row.present THEN None
  ELSE IF row.manufacturer_status = "found" /\ Truthy(row.manufacturer)
         THEN row.manufacturer
  ELSE IF row.manufacturer_status \in {"unknown", "error"} THEN S_Unknown
  ELSE None

\* needs_manufacturer_lookup with the cooldown test written `>=`
needs_lookup_inclusive(row, t) ==
  IF ~row.present THEN TRUE
  ELSE IF row.manufacturer_status = "found" /\ Truthy(row.manufacturer) THEN FALSE
  ELSE IF row.manufacturer_status = "unknown" THEN FALSE
  ELSE IF row.manufacturer_status = "error"
          /\ row.manufacturer_last_attempt # NoTime
         THEN t - row.manufacturer_last_attempt >= Cooldown
  ELSE TRUE

\* needs_manufacturer_lookup with an attempted Pending row never looked up again
needs_lookup_pending_blocks(row, t) ==
  IF ~row.present THEN TRUE
  ELSE IF row.manufacturer_status = "found" /\ Truthy(row.manufacturer) THEN FALSE
  ELSE IF row.manufacturer_status = "unknown" THEN FALSE
  ELSE IF row.manufacturer_status = "error"
          /\ row.manufacturer_last_attempt # NoTime
         THEN t - row.manufacturer_last_attempt > Cooldown
  ELSE IF row.manufacturer_status = "pending"
          /\ row.manufacturer_last_attempt # NoTime
         THEN FALSE
  ELSE TRUE

\* Database.needs_manufacturer_lookup at time t
needs_manufacturer_lookup(row, t) ==
  IF ~row.present THEN TRUE
  ELSE IF row.manufacturer_status = "found" /\ Truthy(row.manufacturer) THEN FALSE
  ELSE IF row.manufacturer_status = "unknown" THEN FALSE
  ELSE IF row.manufacturer_status = "error"
          /\ row.manufacturer_last_attempt # NoTime
         THEN t - row.manufacturer_last_attempt > Cooldown
  ELSE TRUE

\* set_manufacturer without line 169: the label of the row is left as it is
set_manufacturer_keeps_label(row, manufacturer, status, t) ==
  [(IF row.present THEN row ELSE NewDevice(None)) EXCEPT
     !.manufacturer_status = status,
     !.manufacturer_last_attempt = t]

\* Database.set_manufacturer: get or create the row, write the three fields
set_manufacturer(row, manufacturer, status, t) ==
  [(IF row.present THEN row ELSE NewDevice(None)) EXCEPT
     !.manufacturer = manufacturer,
     !.manufacturer_status = status,
     !.manufacturer_last_attempt = t]

\* reset_manufacturer_lookup with a WHERE clause that leaves Found rows alone
reset_unless_found(row) ==
  IF row.present /\ row.manufacturer_status # "found"
    THEN [row EXCEPT !.manufacturer_status = "pending",
                     !.manufacturer_last_attempt = NoTime]
    ELSE row

\* Database.reset_manufacturer_lookup: UPDATE ... WHERE mac = :mac
reset_manufacturer_lookup(row) ==
  IF row.present
    THEN [row EXCEPT !.manufacturer_status = "pending",
                     !.manufacturer_last_attempt = NoTime]
    ELSE row

\* retry_failed_manufacturer_lookups with a WHERE clause that names Error only
retry_error_only(table) ==
  [m \in DOMAIN table |->
     IF table[m].present /\ table[m].manufacturer_status = "error"
       THEN [table[m] EXCEPT !.manufacturer_status = "pending",
                             !.manufacturer_last_attempt = NoTime]
       ELSE table[m]]

\* Database.retry_failed_manufacturer_lookups, line 189: result.rowcount, the
\* number of rows the WHERE clause selects
retry_failed_count(table) ==
  Cardinality({m \in DOMAIN table :
                 table[m].present /\ table[m].manufacturer_status \in {"error", "unknown"}})

\* Database.retry_failed_manufacturer_lookups: UPDATE ... WHERE status IN (error, unknown)
retry_failed_manufacturer_lookups(table) ==
  [m \in DOMAIN table |->
     IF table[m].present /\ table[m].manufacturer_status \in {"error", "unknown"}
       THEN [table[m] EXCEPT !.manufacturer_status = "pending",
                             !.manufacturer_last_attempt = NoTime]
       ELSE table[m]]

\* add_device without `and not device.name`: a given name replaces the stored one
add_device_overwrites(row, name) ==
  IF row.present
    THEN IF Truthy(name) THEN [row EXCEPT !.name = name] ELSE row
    ELSE NewDevice(name)

\* Database.add_device: update the row (name only when it has none) or insert it
add_device(row, name) ==
  IF row.present
    THEN IF Truthy(name) /\ ~Truthy(row.name) THEN [row EXCEPT !.name = name] ELSE row
    ELSE NewDevice(name)

(* ----------------------------- providers -------------------------------- *)
\* the hosts of the list `apis`, in order
S_maclookup == <<"m","a","c","l","o","o","k","u","p",".","a","p","p">>
ApiUrls ==
  << <<"a","p","i",".","m","a","c","v","e","n","d","o","r","s",".","c","o","m">>,
     S_maclookup,
     <<"a","p","i",".">> \o S_maclookup >>

\* a JSON value that is no string (a number)
NumberVal == <<"<number>">>

TextResponse(code, text) ==
  [kind |-> "http", status_code |-> code, text |-> text, json |-> "invalid",
   company |-> None, companyName |-> None]
DictResponse(code, company, companyName) ==
  [kind |-> "http", status_code |-> code, text |-> S_Empty, json |-> "dict",
   company |-> company, companyName |-> companyName]
ListResponse(code, text) ==
  [kind |-> "http", status_code |-> code, text |-> text, json |-> "other",
   company |-> None, companyName |-> None]
\* client.get raising httpx.RequestError / httpx.TimeoutException
TransportFailure ==
  [kind |-> "transport", status_code |-> 0, text |-> S_Empty, json |-> "invalid",
   company |-> None, companyName |-> None]

\* what a provider may answer to one request
Responses ==
  { TransportFailure,
    TextResponse(404, S_NotFound), TextResponse(429, S_Empty),
    TextResponse(200, S_Empty), TextResponse(200, S_NotFound),
    TextResponse(200, S_ErrorMac), TextResponse(200, S_AcmeNl),
    TextResponse(200, S_notfound),
    DictResponse(200, S_Acme, None), DictResponse(200, None, S_Acme),
    DictResponse(200, None, None), DictResponse(200, NumberVal, None),
    ListResponse(200, S_AcmeNl) }

\* _parse_manufacturer_response
parse_manufacturer_response(response, api) ==
  IF Contains(ApiUrls[api], S_maclookup)
    THEN IF response.json = "dict"
           THEN Or(response.company, Or(response.companyName, S_Empty))
           ELSE Strip(response.text)
    ELSE Strip(response.text)

\* the test of lines 70-71 raises TypeError on a value that is no str
AcceptRaises(manufacturer) == manufacturer = NumberVal

\* lines 70-71 without the leading `manufacturer and`
AcceptsEmpty(manufacturer) ==
  /\ ~Contains(manufacturer, S_NotFound)
  /\ ~Contains(Lower(manufacturer), S_error)

\* lines 70-71: manufacturer and "Not Found" not in manufacturer
\*              and "error" not in manufacturer.lower()
Accepts(manufacturer) ==
  /\ Truthy(manufacturer)
  /\ ~Contains(manufacturer, S_NotFound)
  /\ ~Contains(Lower(manufacturer), S_error)

(* ------------------------------- state --------------------------------- *)
VARIABLES
  now,              \* the wall clock (time.time(), datetime.now()), ms
  devices,          \* table `devices`: MAC -> row
  pending_lookups,  \* main.pending_lookups
  last_request,     \* main.rate_limiter.last_request
  tasks,            \* the background tasks: a bag of frames of lookup_manufacturer
  callers,          \* harness: tasks that only call rate_limiter.wait_if_needed
  last_seen,        \* column last_seen of table `devices` as add_device writes
                    \* it: MAC -> time, NoTime while no event and no update
                    \* has written the row
  handlers,         \* the handlers of POST /api/events and PUT /api/devices in
                    \* flight: a bag of frames
  collation         \* how the table compares the strings of column mac: "ci"
                    \* (letter case ignored, the server default) or "bin"

vars == <<now, devices, pending_lookups, last_request, tasks, callers,
          last_seen, handlers, collation>>

\* the frame of lookup_manufacturer(mac) as add_task leaves it.  `by` is the
\* handler that scheduled it; acq and req count the wait_if_needed calls and
\* the provider requests of the task.
NewTask(mac, by) ==
  [pc |-> "start", mac |-> mac, api |-> 0, wake |-> NoTime, label |-> None,
   exc |-> "none", by |-> by, acq |-> 0, req |-> 0]

IdleCaller == [pc |-> "idle", wake |-> NoTime, calls |-> 0, first |-> NoTime]

Init ==
  /\ now = Interval
  /\ devices = [m \in MACS |-> NoDevice]
  /\ pending_lookups = {}
  /\ last_request = 0
  /\ tasks = EmptyBag
  /\ callers = [c \in CallerIds |-> IdleCaller]
  /\ last_seen = [m \in MACS |-> NoTime]
  /\ handlers = EmptyBag
  /\ collation = "ci"

Frames == BagToSet(tasks)

(* ------------------------------- clock --------------------------------- *)
FineCount(t) == ((t - Interval) % Cooldown) \div Interval
CoarseCount(t) == (t - Interval) \div Cooldown

\* time passes: by one interval, or by one cooldown
Tick ==
  /\ \/ FineCount(now) < MaxFine /\ now' = now + Interval
     \/ CoarseCount(now) < MaxCoarse /\ now' = now + Cooldown
  /\ UNCHANGED <<devices, pending_lookups, last_request, tasks, callers, last_seen, handlers, collation>>

(* ---------------------------- rate limiter ----------------------------- *)
\* wait_if_needed with the test of line 31 inverted: it sleeps only when the
\* interval has already passed, for a time that is not positive
WaitUntilInverted(last, t) ==
  LET elapsed == t - last
  IN IF elapsed > Interval THEN t + (Interval - elapsed) ELSE NoTime

\* RateLimiter.wait_if_needed, lines 30-32: the time to sleep until, or
\* NoTime when the caller does not sleep
WaitUntil(last, t) ==
  LET elapsed == t - last
  IN IF elapsed < Interval THEN t + (Interval - elapsed) ELSE NoTime

(* ------------------------------ handlers ------------------------------- *)
\* BackgroundTasks.add_task(lookup_manufacturer, mac)
AddTask(mac, by) ==
  /\ BagCardinality(tasks) < MaxTasks
  /\ tasks' = tasks (+) SetToBag({NewTask(mac, by)})

\* the test of line 235 without `mac not in pending_lookups`
GetSchedulesInFlight(mac) ==
  /\ ~Truthy(db_get_manufacturer(devices[mac]))
  /\ needs_manufacturer_lookup(devices[mac], now)

\* whether GET /api/manufacturer/{mac} schedules a lookup (lines 231-236)
GetSchedules(mac) ==
  /\ ~Truthy(db_get_manufacturer(devices[mac]))
  /\ needs_manufacturer_lookup(devices[mac], now)
  /\ mac \notin pending_lookups

S_Loading == <<"L","o","a","d","i","n","g",".",".",".">>

\* the answer of GET with the placeholder left out: the cached value as it is
get_manufacturer_answer_raw(row) == db_get_manufacturer(row)

\* the value of key "manufacturer" in the answer of GET /api/manufacturer/{mac}
\* (lines 230-238)
get_manufacturer_answer(row) ==
  IF Truthy(db_get_manufacturer(row)) THEN db_get_manufacturer(row) ELSE S_Loading

\* GET /api/manufacturer/{mac}
GetManufacturer(mac) ==
  /\ GetSchedules(mac)
  /\ AddTask(mac, "get")
  /\ UNCHANGED <<now, devices, pending_lookups, last_request, callers, last_seen, handlers, collation>>

\* POST /api/manufacturer/{mac}/retry
RetryManufacturerLookup(mac) ==
  /\ devices' = [devices EXCEPT ![mac] = reset_manufacturer_lookup(@)]
  /\ AddTask(mac, "retry")
  /\ UNCHANGED <<now, pending_lookups, last_request, callers, last_seen, handlers, collation>>

\* POST /api/manufacturer/retry
RetryFailedLookups ==
  /\ devices' = retry_failed_manufacturer_lookups(devices)
  /\ devices' # devices
  /\ UNCHANGED <<now, pending_lookups, last_request, tasks, callers, last_seen, handlers, collation>>

(* ------------------------- lookup_manufacturer -------------------------- *)
\* the task with frame f moves to frame g
Step(f, g) == tasks' = (tasks (-) SetToBag({f})) (+) SetToBag({g})

\* the task with frame f ends
Exit(f) == tasks' = tasks (-) SetToBag({f})

\* lines 43-44: the in-flight test; the task then awaits needs_manufacturer_lookup
LookupStart ==
  \E f \in Frames :
    /\ f.pc = "start"
    /\ IF f.mac \in pending_lookups
         THEN Exit(f)
         ELSE Step(f, [f EXCEPT !.pc = "needs", !.by = "-"])
    /\ UNCHANGED <<now, devices, pending_lookups, last_request, callers, last_seen, handlers, collation>>

\* lines 46-49 with line 49 moved before the test of line 46: the MAC is added
\* to pending_lookups whatever needs_manufacturer_lookup answers
LookupNeedsAddsFirst ==
  \E f \in Frames :
    /\ f.pc = "needs"
    /\ \/ /\ needs_manufacturer_lookup(devices[f.mac], now)
          /\ pending_lookups' = pending_lookups \cup {f.mac}
          /\ Step(f, [f EXCEPT !.pc = "set_pending"])
       \/ /\ ~needs_manufacturer_lookup(devices[f.mac], now)
          /\ pending_lookups' = pending_lookups \cup {f.mac}
          /\ Exit(f)
       \/ /\ Exit(f)
          /\ UNCHANGED pending_lookups
    /\ UNCHANGED <<now, devices, last_request, callers, last_seen, handlers, collation>>

\* lines 46-49: the answer of needs_manufacturer_lookup arrives; the task
\* returns, or adds its MAC to pending_lookups and enters the try block
LookupNeeds ==
  \E f \in Frames :
    /\ f.pc = "needs"
    /\ \/ /\ needs_manufacturer_lookup(devices[f.mac], now)
          /\ pending_lookups' = pending_lookups \cup {f.mac}
          /\ Step(f, [f EXCEPT !.pc = "set_pending"])
       \/ /\ ~needs_manufacturer_lookup(devices[f.mac], now)
          /\ Exit(f)
          /\ UNCHANGED pending_lookups
       \/ \* the store raises: the task ends before line 49
          /\ Exit(f)
          /\ UNCHANGED pending_lookups
    /\ UNCHANGED <<now, devices, last_request, callers, last_seen, handlers, collation>>

\* line 52 left out: the task goes on to the rate limiter and writes nothing
LookupSetPendingSkipped ==
  \E f \in Frames :
    /\ f.pc = "set_pending"
    /\ Step(f, [f EXCEPT !.pc = "rate"])
    /\ UNCHANGED <<now, devices, pending_lookups, last_request, callers, last_seen, handlers, collation>>

\* line 52: set_manufacturer(mac, None, 'pending')
LookupSetPending ==
  \E f \in Frames :
    /\ f.pc = "set_pending"
    /\ \/ /\ devices' = [devices EXCEPT
                           ![f.mac] = set_manufacturer(@, None, "pending", now)]
          /\ Step(f, [f EXCEPT !.pc = "rate"])
       \/ \* the store raises
          /\ Step(f, [f EXCEPT !.pc = "finally", !.exc = "store"])
          /\ UNCHANGED devices
    /\ UNCHANGED <<now, pending_lookups, last_request, callers, last_seen, handlers, collation>>

\* line 53 and wait_if_needed lines 30-33: sleep, or record the call start
LookupRateLimit ==
  \E f \in Frames :
    /\ f.pc = "rate"
    /\ LET until == WaitUntil(last_request, now)
       IN IF until = NoTime
            THEN /\ last_request' = now
                 /\ Step(f, [f EXCEPT !.pc = "get", !.api = 1, !.acq = @ + 1])
            ELSE /\ Step(f, [f EXCEPT !.pc = "sleep", !.wake = until, !.acq = @ + 1])
                 /\ UNCHANGED last_request
    /\ UNCHANGED <<now, devices, pending_lookups, callers, last_seen, handlers, collation>>

\* wait_if_needed line 33, after asyncio.sleep returned
LookupWake ==
  \E f \in Frames :
    /\ f.pc = "sleep"
    /\ now >= f.wake
    /\ last_request' = now
    /\ Step(f, [f EXCEPT !.pc = "get", !.api = 1, !.wake = NoTime])
    /\ UNCHANGED <<now, devices, pending_lookups, callers, last_seen, handlers, collation>>

\* the loop left at the first provider that gives no vendor
NextProviderAborts(f) ==
  [f EXCEPT !.pc = "set_unknown", !.api = 0, !.req = @ + 1]

\* the frame after provider `api` gave no vendor: the next provider, or line 81
NextProvider(f) ==
  IF f.api < NumApis
    THEN [f EXCEPT !.api = @ + 1, !.req = @ + 1]
    ELSE [f EXCEPT !.pc = "set_unknown", !.api = 0, !.req = @ + 1]

\* the loop body with the `return` of line 75 left out: an accepted name is
\* recorded only at the last provider, before that the loop goes on
AfterResponseKeepsAsking(f, response) ==
  IF response.kind = "transport" THEN NextProvider(f)
  ELSE IF response.status_code # 200 THEN NextProvider(f)
  ELSE LET manufacturer == parse_manufacturer_response(response, f.api)
       IN IF AcceptRaises(manufacturer)
            THEN [f EXCEPT !.pc = "finally", !.api = 0, !.exc = "type", !.req = @ + 1]
          ELSE IF Accepts(manufacturer) /\ f.api = NumApis
            THEN [f EXCEPT !.pc = "set_found", !.api = 0, !.label = manufacturer,
                           !.req = @ + 1]
          ELSE NextProvider(f)

\* lines 65-78: the answer of provider `api` and what the loop body does with it
AfterResponse(f, response) ==
  IF response.kind = "transport" THEN NextProvider(f)
  ELSE IF response.status_code # 200 THEN NextProvider(f)
  ELSE LET manufacturer == parse_manufacturer_response(response, f.api)
       IN IF AcceptRaises(manufacturer)
            THEN [f EXCEPT !.pc = "finally", !.api = 0, !.exc = "type", !.req = @ + 1]
          ELSE IF Accepts(manufacturer)
            THEN [f EXCEPT !.pc = "set_found", !.api = 0, !.label = manufacturer,
                           !.req = @ + 1]
          ELSE NextProvider(f)

\* line 65 with the except clause of line 77 left out: a transport error
\* leaves the loop and the handler of lines 83-84 writes (None, 'error')
LookupRequestUncaught ==
  \E f \in Frames :
    /\ f.pc = "get"
    /\ \E response \in Responses :
         IF response.kind = "transport"
           THEN /\ devices' = [devices EXCEPT
                                 ![f.mac] = set_manufacturer(@, None, "error", now)]
                /\ Step(f, [f EXCEPT !.pc = "finally", !.api = 0, !.req = @ + 1])
           ELSE /\ Step(f, AfterResponse(f, response))
                /\ UNCHANGED devices
    /\ UNCHANGED <<now, pending_lookups, last_request, callers, last_seen, handlers,
                   collation>>

\* line 65: one request to provider `api`
LookupRequest ==
  \E f \in Frames :
    /\ f.pc = "get"
    /\ \E response \in Responses : Step(f, AfterResponse(f, response))
    /\ UNCHANGED <<now, devices, pending_lookups, last_request, callers, last_seen, handlers, collation>>

\* what a provider answers when it answers (no transport error) but has no
\* vendor for the MAC
NoVendorResponses ==
  { TextResponse(404, S_NotFound), TextResponse(429, S_Empty),
    TextResponse(200, S_Empty), TextResponse(200, S_NotFound),
    TextResponse(200, S_ErrorMac), DictResponse(200, None, None) }

\* line 65, with providers that answer and have no vendor for the MAC
LookupRequestNoVendor ==
  \E f \in Frames :
    /\ f.pc = "get"
    /\ \E response \in NoVendorResponses : Step(f, AfterResponse(f, response))
    /\ UNCHANGED <<now, devices, pending_lookups, last_request, callers, last_seen, handlers, collation>>

\* line 65, with the network down: every request raises httpx.RequestError
LookupRequestTransportDown ==
  \E f \in Frames :
    /\ f.pc = "get"
    /\ Step(f, AfterResponse(f, TransportFailure))
    /\ UNCHANGED <<now, devices, pending_lookups, last_request, callers, last_seen, handlers, collation>>

\* line 72 with the time of the write taken from the rate limiter: the row is
\* stamped with the time the last provider call started
LookupSetFoundStampsRequest ==
  \E f \in Frames :
    /\ f.pc = "set_found"
    /\ \/ /\ devices' = [devices EXCEPT
                           ![f.mac] = set_manufacturer(@, f.label, "found", last_request)]
          /\ Step(f, [f EXCEPT !.pc = "finally", !.label = None])
       \/ /\ Step(f, [f EXCEPT !.pc = "finally", !.label = None, !.exc = "store"])
          /\ UNCHANGED devices
    /\ UNCHANGED <<now, pending_lookups, last_request, callers, last_seen, handlers, collation>>

\* line 72: set_manufacturer(mac, manufacturer, 'found'), then return
LookupSetFound ==
  \E f \in Frames :
    /\ f.pc = "set_found"
    /\ \/ /\ devices' = [devices EXCEPT
                           ![f.mac] = set_manufacturer(@, f.label, "found", now)]
          /\ Step(f, [f EXCEPT !.pc = "finally", !.label = None])
       \/ \* the store raises
          /\ Step(f, [f EXCEPT !.pc = "finally", !.label = None, !.exc = "store"])
          /\ UNCHANGED devices
    /\ UNCHANGED <<now, pending_lookups, last_request, callers, last_seen, handlers, collation>>

\* line 81 writing no label: set_manufacturer(mac, None, 'unknown')
LookupSetUnknownNoLabel ==
  \E f \in Frames :
    /\ f.pc = "set_unknown"
    /\ \/ /\ devices' = [devices EXCEPT
                           ![f.mac] = set_manufacturer(@, None, "unknown", now)]
          /\ Step(f, [f EXCEPT !.pc = "finally"])
       \/ /\ Step(f, [f EXCEPT !.pc = "finally", !.exc = "store"])
          /\ UNCHANGED devices
    /\ UNCHANGED <<now, pending_lookups, last_request, callers, last_seen, handlers, collation>>

\* line 81 writing what line 84 writes: no label, status 'error'
LookupSetUnknownAsError ==
  \E f \in Frames :
    /\ f.pc = "set_unknown"
    /\ \/ /\ devices' = [devices EXCEPT
                           ![f.mac] = set_manufacturer(@, None, "error", now)]
          /\ Step(f, [f EXCEPT !.pc = "finally"])
       \/ /\ Step(f, [f EXCEPT !.pc = "finally", !.exc = "store"])
          /\ UNCHANGED devices
    /\ UNCHANGED <<now, pending_lookups, last_request, callers, last_seen, handlers, collation>>

\* line 81: set_manufacturer(mac, 'Unknown', 'unknown')
LookupSetUnknown ==
  \E f \in Frames :
    /\ f.pc = "set_unknown"
    /\ \/ /\ devices' = [devices EXCEPT
                           ![f.mac] = set_manufacturer(@, S_Unknown, "unknown", now)]
          /\ Step(f, [f EXCEPT !.pc = "finally"])
       \/ \* the store raises
          /\ Step(f, [f EXCEPT !.pc = "finally", !.exc = "store"])
          /\ UNCHANGED devices
    /\ UNCHANGED <<now, pending_lookups, last_request, callers, last_seen, handlers, collation>>

\* the discard written at the end of the try block instead of in `finally`
DiscardUnlessRaised(pending, mac, exc) ==
  IF exc = "none" THEN pending \ {mac} ELSE pending

\* lines 86-87: pending_lookups.discard(mac), whatever ended the try block
Discard(pending, mac, exc) == pending \ {mac}

LookupFinally ==
  \E f \in Frames :
    /\ f.pc = "finally"
    /\ pending_lookups' = Discard(pending_lookups, f.mac, f.exc)
    /\ Exit(f)
    /\ UNCHANGED <<now, devices, last_request, callers, last_seen, handlers, collation>>

\* the process stops and starts again: lines 37-38 run anew, every task is
\* gone, the table is kept
Restart ==
  /\ tasks # EmptyBag
  /\ tasks' = EmptyBag
  /\ pending_lookups' = {}
  /\ last_request' = 0
  /\ UNCHANGED <<now, devices, callers, last_seen, handlers, collation>>

(* ------------------------------- ingest -------------------------------- *)
\* the host strings of the events
Hosts == {S_Empty, S_pcPadded}

\* POST /api/events with action "assigned", a MAC and a host:
\* receive_event lines 168-174 and process_device_event
ReceiveEvent(mac, raw_host) ==
  LET host == Strip(Or(raw_host, S_Empty))
      device == devices[mac]
  IN /\ devices' = [devices EXCEPT ![mac] =
                      IF ~device.present
                        THEN add_device(device, Or(host, None))
                        ELSE add_device(device, Or(host, device.name))]
     /\ devices' # devices
     /\ UNCHANGED <<now, pending_lookups, last_request, tasks, callers, last_seen, handlers, collation>>

(* ----------------------------- front door ------------------------------ *)
S_json == <<"a","p","p","l","i","c","a","t","i","o","n","/","j","s","o","n">>
S_textplain == <<"t","e","x","t","/","p","l","a","i","n">>
S_tv == <<"t","v">>
S_Blank == <<" "," ">>

\* str.startswith
StartsWith(s, prefix) ==
  Len(s) >= Len(prefix) /\ SubSeq(s, 1, Len(prefix)) = prefix

\* a request to POST /api/events: the content-type header ("" when absent),
\* the body ("dict": a JSON object, "list": other JSON, "unparsable"), and the
\* keys action, mac and host of the object ("<None>" and None when absent)
Event(ctype, body, action, mac, host) ==
  [ctype |-> ctype, body |-> body, action |-> action, mac |-> mac, host |-> host]

NoEvent == Event(S_Empty, "-", "-", "-", None)

Events ==
  { Event(S_json, "dict", "assigned", "m1", S_pcPadded),
    Event(S_json, "dict", "assigned", "m1", S_Empty),
    Event(S_json, "dict", "assigned", "m1", None),
    Event(S_textplain, "dict", "assigned", "m1", S_pcPadded),
    Event(S_Empty, "dict", "assigned", "m1", S_pcPadded),
    Event(S_json, "unparsable", "<None>", "<None>", None),
    Event(S_json, "list", "<None>", "<None>", None),
    Event(S_json, "dict", "released", "m1", S_pcPadded),
    Event(S_json, "dict", "<None>", "m1", S_pcPadded),
    Event(S_json, "dict", "assigned", "<None>", S_pcPadded),
    Event(S_json, "dict", "assigned", "", S_pcPadded) }

\* line 169 without the test of the action
AssignedAnyAction(e) == e.mac \notin {"<None>", ""}

\* line 169: data.get('action') == 'assigned' and data.get('mac')
Assigned(e) == e.action = "assigned" /\ e.mac \notin {"<None>", ""}

\* the frame of a handler.  `name` is the host of an event (stripped) or the
\* name of an update, `notify` the flag of an update ("unset" when absent),
\* `device` the row get_device returned, `fired` the notifications sent,
\* `status` the status code of the answer (0 while there is none).
Handler(kind, pc, e, mac, name, notify) ==
  [kind |-> kind, pc |-> pc, event |-> e, mac |-> mac, name |-> name,
   notify |-> notify, device |-> NoDevice, fired |-> <<>>, exc |-> "none",
   status |-> 0]

\* the handler returns (or raises) with this status code
Answers(f, code, exc) == [f EXCEPT !.pc = "done", !.status = code, !.exc = exc]

HandlerFrames == BagToSet(handlers)

\* the handler with frame f moves to frame g
HStep(f, g) == handlers' = (handlers (-) SetToBag({f})) (+) SetToBag({g})

\* receive_event without the handler of line 176: a body that is no JSON
\* object is answered with 400
receive_event_rejects(e) ==
  LET f == Handler("event", "get_device", e, e.mac, None, "unset")
  IN IF ~StartsWith(e.ctype, S_json) THEN Answers(f, 204, "none")
     ELSE IF e.body = "unparsable" THEN Answers(f, 400, "json")
     ELSE IF e.body # "dict" THEN Answers(f, 400, "attribute")
     ELSE IF Assigned(e)
       THEN [f EXCEPT !.name = Strip(Or(e.host, S_Empty))]
     ELSE Answers(f, 204, "none")

\* receive_event lines 164-169, up to the call of process_device_event
receive_event(e) ==
  LET f == Handler("event", "get_device", e, e.mac, None, "unset")
  IN IF ~StartsWith(e.ctype, S_json) THEN Answers(f, 204, "none")
     ELSE IF e.body = "unparsable" THEN Answers(f, 204, "json")
     ELSE IF e.body # "dict" THEN Answers(f, 204, "attribute")
     ELSE IF Assigned(e)
       THEN [f EXCEPT !.name = Strip(Or(e.host, S_Empty))]
     ELSE Answers(f, 204, "none")

\* POST /api/events arrives
EventArrives ==
  \E e \in Events :
    /\ BagCardinality(handlers) < MaxHandlers
    /\ handlers' = handlers (+) SetToBag({receive_event(e)})
    /\ UNCHANGED <<now, devices, pending_lookups, last_request, tasks, callers,
                   last_seen, collation>>

\* line 115: device = await db.get_device(mac)
EventGetDevice ==
  \E f \in HandlerFrames :
    /\ f.kind = "event" /\ f.pc = "get_device"
    /\ \/ HStep(f, [f EXCEPT !.pc = "add_device", !.device = devices[f.mac]])
       \/ \* the store raises: line 176
          HStep(f, Answers(f, 204, "store"))
    /\ UNCHANGED <<now, devices, pending_lookups, last_request, tasks, callers,
                   last_seen, collation>>

\* process_device_event without the test of line 125: every known device is
\* notified as tracked
AfterAddDeviceNotifiesAll(f) ==
  IF ~f.device.present THEN [f EXCEPT !.pc = "notify_unknown"]
  ELSE [f EXCEPT !.pc = "notify_tracked"]

\* the frame after add_device returned: the notification to send, if any
AfterAddDevice(f) ==
  IF ~f.device.present THEN [f EXCEPT !.pc = "notify_unknown"]
  ELSE IF f.device.notify THEN [f EXCEPT !.pc = "notify_tracked"]
  ELSE Answers(f, 204, "none")

\* lines 118 and 123: await db.add_device(mac, host or None / host or device_name)
EventAddDevice ==
  \E f \in HandlerFrames :
    /\ f.kind = "event" /\ f.pc = "add_device"
    /\ \/ /\ devices' = [devices EXCEPT ![f.mac] =
                           add_device(@, IF ~f.device.present
                                           THEN Or(f.name, None)
                                           ELSE Or(f.name, f.device.name))]
          /\ last_seen' = [last_seen EXCEPT ![f.mac] = now]
          /\ HStep(f, AfterAddDevice(f))
       \/ \* the store raises: line 176
          /\ HStep(f, Answers(f, 204, "store"))
          /\ UNCHANGED <<devices, last_seen>>
    /\ UNCHANGED <<now, pending_lookups, last_request, tasks, callers, collation>>

\* lines 119 and 127: await notifier.notify_unknown_device / notify_tracked_device
EventNotify ==
  \E f \in HandlerFrames :
    /\ f.kind = "event" /\ f.pc \in {"notify_unknown", "notify_tracked"}
    /\ \/ HStep(f, [Answers(f, 204, "none") EXCEPT
                      !.fired = Append(@, IF f.pc = "notify_unknown"
                                            THEN "unknown" ELSE "tracked")])
       \/ \* the notifier raises: line 176
          HStep(f, Answers(f, 204, "notifier"))
    /\ UNCHANGED <<now, devices, pending_lookups, last_request, tasks, callers,
                   last_seen, collation>>

\* the names and flags of the bodies of PUT /api/devices/{mac}
PutNames == {None, S_Blank, S_tv}
PutNotify == {"unset", "true", "false"}

\* DeviceUpdateRequest.validate_name
validate_name(v) == IF v # None /\ Strip(v) = S_Empty THEN None ELSE v

\* Database.set_device_name: UPDATE ... WHERE mac = :mac
set_device_name(row, name) == IF row.present THEN [row EXCEPT !.name = name] ELSE row

\* Database.set_device_notify: UPDATE ... WHERE mac = :mac
set_device_notify(row, notify) ==
  IF row.present THEN [row EXCEPT !.notify = notify] ELSE row

\* PUT /api/devices/{mac} arrives
PutArrives ==
  \E mac \in MACS, name \in PutNames, notify \in PutNotify :
    /\ BagCardinality(handlers) < MaxHandlers
    /\ handlers' = handlers (+)
         SetToBag({Handler("put", "get_device", NoEvent, mac, validate_name(name),
                           notify)})
    /\ UNCHANGED <<now, devices, pending_lookups, last_request, tasks, callers,
                   last_seen, collation>>

\* update_device from line 220 on: the next store call, or the answer
AfterPutName(f) ==
  IF f.notify # "unset" THEN [f EXCEPT !.pc = "set_notify"]
  ELSE Answers(f, 200, "none")

\* update_device without the test of line 220: the name is always written
AfterPutAddAlwaysNames(f) == [f EXCEPT !.pc = "set_name"]

\* update_device from line 217 on, once the row exists
AfterPutAdd(f) ==
  IF f.name # None THEN [f EXCEPT !.pc = "set_name"] ELSE AfterPutName(f)

\* line 217: await db.get_device(mac)
PutGetDevice ==
  \E f \in HandlerFrames :
    /\ f.kind = "put" /\ f.pc = "get_device"
    /\ \/ HStep(f, IF devices[f.mac].present
                     THEN AfterPutAdd(f)
                     ELSE [f EXCEPT !.pc = "add_device"])
       \/ \* the store raises
          HStep(f, Answers(f, 500, "store"))
    /\ UNCHANGED <<now, devices, pending_lookups, last_request, tasks, callers,
                   last_seen, collation>>

\* line 218: await db.add_device(mac, update.name)
PutAddDevice ==
  \E f \in HandlerFrames :
    /\ f.kind = "put" /\ f.pc = "add_device"
    /\ \/ /\ devices' = [devices EXCEPT ![f.mac] = add_device(@, f.name)]
          /\ last_seen' = [last_seen EXCEPT ![f.mac] = now]
          /\ HStep(f, AfterPutAdd(f))
       \/ \* the store raises
          /\ HStep(f, Answers(f, 500, "store"))
          /\ UNCHANGED <<devices, last_seen>>
    /\ UNCHANGED <<now, pending_lookups, last_request, tasks, callers, collation>>

\* line 221: await db.set_device_name(mac, update.name)
PutSetName ==
  \E f \in HandlerFrames :
    /\ f.kind = "put" /\ f.pc = "set_name"
    /\ \/ /\ devices' = [devices EXCEPT ![f.mac] = set_device_name(@, f.name)]
          /\ HStep(f, AfterPutName(f))
       \/ \* the store raises
          /\ HStep(f, Answers(f, 500, "store"))
          /\ UNCHANGED devices
    /\ UNCHANGED <<now, pending_lookups, last_request, tasks, callers, last_seen, collation>>

\* line 223: await db.set_device_notify(mac, update.notify)
PutSetNotify ==
  \E f \in HandlerFrames :
    /\ f.kind = "put" /\ f.pc = "set_notify"
    /\ \/ /\ devices' = [devices EXCEPT
                           ![f.mac] = set_device_notify(@, f.notify = "true")]
          /\ HStep(f, Answers(f, 200, "none"))
       \/ \* the store raises
          /\ HStep(f, Answers(f, 500, "store"))
          /\ UNCHANGED devices
    /\ UNCHANGED <<now, pending_lookups, last_request, tasks, callers, last_seen, collation>>

\* the answer is sent and the handler is gone
HandlerAnswers ==
  \E f \in HandlerFrames :
    /\ f.pc = "done"
    /\ handlers' = handlers (-) SetToBag({f})
    /\ UNCHANGED <<now, devices, pending_lookups, last_request, tasks, callers,
                   last_seen, collation>>

\* PUT /api/devices/{mac} alone
NextPut ==
  \/ Tick
  \/ PutArrives
  \/ PutGetDevice
  \/ PutAddDevice
  \/ PutSetName
  \/ PutSetNotify
  \/ HandlerAnswers

(* ----------------------- rate limiter harness -------------------------- *)
\* a task calls wait_if_needed (lines 30-33 up to the sleep)
CallerCall(c) ==
  /\ callers[c].pc = "idle"
  /\ callers[c].calls < MaxCalls
  /\ LET until == WaitUntil(last_request, now)
         started == [callers[c] EXCEPT
                       !.first = IF callers[c].calls = 0 THEN now ELSE @]
     IN IF until = NoTime
          THEN /\ last_request' = now
               /\ callers' = [callers EXCEPT ![c] = [started EXCEPT !.calls = @ + 1]]
          ELSE /\ callers' = [callers EXCEPT
                                ![c] = [started EXCEPT !.pc = "sleep", !.wake = until]]
               /\ UNCHANGED last_request
  /\ UNCHANGED <<now, devices, pending_lookups, tasks, last_seen, handlers, collation>>

\* asyncio.sleep returns and line 33 records the call start
CallerWake(c) ==
  /\ callers[c].pc = "sleep"
  /\ now >= callers[c].wake
  /\ last_request' = now
  /\ callers' = [callers EXCEPT
                   ![c] = [@ EXCEPT !.pc = "idle", !.wake = NoTime, !.calls = @ + 1]]
  /\ UNCHANGED <<now, devices, pending_lookups, tasks, last_seen, handlers, collation>>

\* time passes by half an interval
HalfTick ==
  /\ now < Interval + MaxHalfSteps * (Interval \div 2)
  /\ now' = now + (Interval \div 2)
  /\ UNCHANGED <<devices, pending_lookups, last_request, tasks, callers, last_seen, handlers, collation>>

(* --------------------------- specifications ---------------------------- *)
Next ==
  \/ Tick
  \/ \E mac \in MACS, host \in Hosts : ReceiveEvent(mac, host)
  \/ \E mac \in MACS : GetManufacturer(mac)
  \/ \E mac \in MACS : RetryManufacturerLookup(mac)
  \/ RetryFailedLookups
  \/ LookupStart
  \/ LookupNeeds
  \/ LookupSetPending
  \/ LookupRateLimit
  \/ LookupWake
  \/ LookupRequest
  \/ LookupSetFound
  \/ LookupSetUnknown
  \/ LookupFinally
  \/ Restart

\* the program, started on an empty table
Spec == Init /\ [][Next]_vars

\* the program with no reset request (neither retry endpoint is called)
NextNoReset ==
  \/ Tick
  \/ \E mac \in MACS, host \in Hosts : ReceiveEvent(mac, host)
  \/ \E mac \in MACS : GetManufacturer(mac)
  \/ LookupStart
  \/ LookupNeeds
  \/ LookupSetPending
  \/ LookupRateLimit
  \/ LookupWake
  \/ LookupRequest
  \/ LookupSetFound
  \/ LookupSetUnknown
  \/ LookupFinally
  \/ Restart

SpecNoReset == Init /\ [][NextNoReset]_vars

\* rows the table may hold when the process starts, written at that instant
StoredRows ==
  { NoDevice,
    NewDevice(None),
    set_manufacturer(NoDevice, None, "pending", Interval),
    set_manufacturer(NoDevice, S_Acme, "found", Interval),
    set_manufacturer(NoDevice, S_Unknown, "unknown", Interval),
    set_manufacturer(NoDevice, None, "error", Interval),
    reset_manufacturer_lookup(set_manufacturer(NoDevice, None, "error", Interval)),
    [set_manufacturer(NoDevice, None, "error", Interval)
       EXCEPT !.manufacturer_last_attempt = NoTime] }

InitStored ==
  /\ now = Interval
  /\ devices \in [MACS -> StoredRows]
  /\ pending_lookups = {}
  /\ last_request = 0
  /\ tasks = EmptyBag
  /\ callers = [c \in CallerIds |-> IdleCaller]
  /\ last_seen = [m \in MACS |-> NoTime]
  /\ handlers = EmptyBag
  /\ collation = "ci"

\* the program, started on a table that holds rows
SpecStored == InitStored /\ [][Next]_vars

\* PUT /api/devices/{mac} on a table that holds rows
SpecPut == InitStored /\ [][NextPut]_vars

\* one task calling wait_if_needed back to back
NextSeq ==
  \/ HalfTick
  \/ CallerCall(1)
  \/ CallerWake(1)

SpecSeq == Init /\ [][NextSeq]_vars

\* concurrent tasks calling wait_if_needed
NextRL ==
  \/ HalfTick
  \/ \E c \in CallerIds : CallerCall(c)
  \/ \E c \in CallerIds : CallerWake(c)

SpecRL == Init /\ [][NextRL]_vars

\* the program with providers that answer every request and know no vendor
NextNoVendor ==
  \/ Tick
  \/ \E mac \in MACS, host \in Hosts : ReceiveEvent(mac, host)
  \/ \E mac \in MACS : GetManufacturer(mac)
  \/ \E mac \in MACS : RetryManufacturerLookup(mac)
  \/ RetryFailedLookups
  \/ LookupStart
  \/ LookupNeeds
  \/ LookupSetPending
  \/ LookupRateLimit
  \/ LookupWake
  \/ LookupRequestNoVendor
  \/ LookupSetUnknown
  \/ LookupFinally
  \/ Restart

SpecNoVendor == Init /\ [][NextNoVendor]_vars

\* the program with the network to the providers down
NextTransportDown ==
  \/ Tick
  \/ \E mac \in MACS, host \in Hosts : ReceiveEvent(mac, host)
  \/ \E mac \in MACS : GetManufacturer(mac)
  \/ \E mac \in MACS : RetryManufacturerLookup(mac)
  \/ RetryFailedLookups
  \/ LookupStart
  \/ LookupNeeds
  \/ LookupSetPending
  \/ LookupRateLimit
  \/ LookupWake
  \/ LookupRequestTransportDown
  \/ LookupSetUnknown
  \/ LookupFinally
  \/ Restart

SpecTransportDown == Init /\ [][NextTransportDown]_vars

\* the MACs of a table with more than one row
BulkMACS == {"m1", "m2"}

InitBulk ==
  /\ now = Interval
  /\ devices \in [BulkMACS -> StoredRows]
  /\ pending_lookups = {}
  /\ last_request = 0
  /\ tasks = EmptyBag
  /\ callers = [c \in CallerIds |-> IdleCaller]
  /\ last_seen = [m \in MACS |-> NoTime]
  /\ handlers = EmptyBag
  /\ collation = "ci"

\* ingest and the bulk reset on a stored table of two rows
NextBulk ==
  \/ \E mac \in BulkMACS, host \in Hosts : ReceiveEvent(mac, host)
  \/ RetryFailedLookups

SpecBulk == InitBulk /\ [][NextBulk]_vars

\* the front door: ingest events and device updates, await by await
NextIngest ==
  \/ Tick
  \/ EventArrives
  \/ EventGetDevice
  \/ EventAddDevice
  \/ EventNotify
  \/ PutArrives
  \/ PutGetDevice
  \/ PutAddDevice
  \/ PutSetName
  \/ PutSetNotify
  \/ HandlerAnswers

SpecIngest == Init /\ [][NextIngest]_vars

(* ------------------- ingest after a manufacturer query ----------------- *)
\* GET /api/manufacturer/{mac} while no lookup task exists
QueryArrives ==
  \E mac \in MACS :
    /\ tasks = EmptyBag
    /\ GetManufacturer(mac)

\* a well-formed "assigned" event arrives while no other request is handled
IngestArrives ==
  \E e \in {x \in Events : Assigned(x) /\ receive_event(x).pc = "get_device"} :
    /\ handlers = EmptyBag
    /\ handlers' = handlers (+) SetToBag({receive_event(e)})
    /\ UNCHANGED <<now, devices, pending_lookups, last_request, tasks, callers,
                   last_seen, collation>>

\* manufacturer queries and their lookups, with the network down, next to
\* ingest events that are handled await by await, one request at a time
NextQueryThenIngest ==
  \/ Tick
  \/ QueryArrives
  \/ LookupStart
  \/ LookupNeeds
  \/ LookupSetPending
  \/ LookupRateLimit
  \/ LookupWake
  \/ LookupRequestTransportDown
  \/ LookupSetUnknown
  \/ LookupFinally
  \/ IngestArrives
  \/ EventGetDevice
  \/ EventAddDevice
  \/ EventNotify
  \/ HandlerAnswers

SpecQueryThenIngest == Init /\ [][NextQueryThenIngest]_vars

(* ------------------------ a store that does not fail ------------------- *)
\* no call of the store raises in this step: no task is left with an
\* exception of the store, and no task for a row that needs a lookup ends at
\* line 46
StoreUp ==
  /\ \A f \in BagToSet(tasks') : f.exc # "store"
  /\ \A f \in Frames :
       (f.pc = "needs" /\ needs_manufacturer_lookup(devices[f.mac], now)) => ~Exit(f)

LookupNeedsStoreUp == LookupNeeds /\ StoreUp
LookupSetPendingStoreUp == LookupSetPending /\ StoreUp
LookupSetFoundStoreUp == LookupSetFound /\ StoreUp
LookupSetUnknownStoreUp == LookupSetUnknown /\ StoreUp

\* manufacturer queries and their lookups while the store answers every call
\* and the process keeps running
NextStoreUp ==
  \/ Tick
  \/ \E mac \in MACS : GetManufacturer(mac)
  \/ LookupStart
  \/ LookupNeedsStoreUp
  \/ LookupSetPendingStoreUp
  \/ LookupRateLimit
  \/ LookupWake
  \/ LookupRequest
  \/ LookupSetFoundStoreUp
  \/ LookupSetUnknownStoreUp
  \/ LookupFinally

SpecStoreUp == Init /\ [][NextStoreUp]_vars

(* ------------------------- letter case of a MAC ------------------------ *)
\* two spellings of one hardware address, as a router may send it
CaseMACS == {"m1", "M1"}

\* the characters of the spellings
Chars == ("m1" :> <<"m","1">>) @@ ("M1" :> <<"M","1">>)

\* `WHERE mac = :mac`: whether the stored key k is the one asked for, under the
\* collation of the column
SameKey(k, mac) ==
  IF collation = "ci" THEN Lower(Chars[k]) = Lower(Chars[mac]) ELSE k = mac

\* the key of the row the store finds for mac; mac itself when it finds none
\* (the key under which a row would be inserted)
Stored(mac) ==
  IF \E k \in DOMAIN devices : devices[k].present /\ SameKey(k, mac)
    THEN CHOOSE k \in DOMAIN devices : devices[k].present /\ SameKey(k, mac)
    ELSE mac

\* well-formed "assigned" events for the two spellings
CaseEvents ==
  { Event(S_json, "dict", "assigned", mac, host) :
      mac \in CaseMACS, host \in {S_pcPadded, S_Empty} }

\* POST /api/events arrives with one of the spellings
CaseEventArrives ==
  \E e \in CaseEvents :
    /\ BagCardinality(handlers) < MaxHandlers
    /\ handlers' = handlers (+) SetToBag({receive_event(e)})
    /\ UNCHANGED <<now, devices, pending_lookups, last_request, tasks, callers,
                   last_seen, collation>>

\* line 115: device = await db.get_device(mac), the MAC as it was received
CaseGetDevice ==
  \E f \in HandlerFrames :
    /\ f.kind = "event" /\ f.pc = "get_device"
    /\ \/ HStep(f, [f EXCEPT !.pc = "add_device", !.device = devices[Stored(f.mac)]])
       \/ \* the store raises: line 176
          HStep(f, Answers(f, 204, "store"))
    /\ UNCHANGED <<now, devices, pending_lookups, last_request, tasks, callers,
                   last_seen, collation>>

\* lines 118 and 123: await db.add_device(mac, ...), the MAC as it was received
CaseAddDevice ==
  \E f \in HandlerFrames :
    /\ f.kind = "event" /\ f.pc = "add_device"
    /\ \/ /\ devices' = [devices EXCEPT ![Stored(f.mac)] =
                           add_device(@, IF ~f.device.present
                                           THEN Or(f.name, None)
                                           ELSE Or(f.name, f.device.name))]
          /\ last_seen' = [last_seen EXCEPT ![Stored(f.mac)] = now]
          /\ HStep(f, AfterAddDevice(f))
       \/ \* the store raises: line 176
          /\ HStep(f, Answers(f, 204, "store"))
          /\ UNCHANGED <<devices, last_seen>>
    /\ UNCHANGED <<now, pending_lookups, last_request, tasks, callers, collation>>

\* an empty table whose column mac has either collation
InitCase ==
  /\ now = Interval
  /\ devices = [m \in CaseMACS |-> NoDevice]
  /\ pending_lookups = {}
  /\ last_request = 0
  /\ tasks = EmptyBag
  /\ callers = [c \in CallerIds |-> IdleCaller]
  /\ last_seen = [m \in CaseMACS |-> NoTime]
  /\ handlers = EmptyBag
  /\ collation \in {"ci", "bin"}

NextCase ==
  \/ Tick
  \/ CaseEventArrives
  \/ CaseGetDevice
  \/ CaseAddDevice
  \/ EventNotify
  \/ HandlerAnswers

\* ingest events that spell one MAC in two ways
SpecCase == InitCase /\ [][NextCase]_vars

(* ------------------------------ properties ----------------------------- *)
\* the positions of lookup_manufacturer after line 49 (the MAC was added)
PastGuard == {"set_pending", "rate", "sleep", "get", "set_found", "set_unknown",
              "finally"}

\* the frames of the tasks for mac that are past the in-flight guard
Running(mac) == {f \in Frames : f.mac = mac /\ f.pc \in PastGuard}

\* how many tasks for mac are past the in-flight guard
NumRunning(mac) == BagCardinality([f \in Running(mac) |-> CopiesIn(f, tasks)])

Row(mac) == devices[mac]
Age(mac) == now - Row(mac).manufacturer_last_attempt
Attempted(mac) == Row(mac).present /\ Row(mac).manufacturer_last_attempt # NoTime

\* C1: at any time at most one lookup task per MAC is past the in-flight guard
\* (has added its MAC to pending_lookups and not yet finished).
C1_SingleInFlight == \A mac \in MACS : NumRunning(mac) <= 1

\* C2: every MAC in pending_lookups belongs to a task that is past the guard and
\* has not finished (so the set is empty when no lookup runs), and a task that
\* is past the guard leaves its MAC out of pending_lookups when it ends.
C2_ReleasedOnExit ==
  /\ [](\A mac \in pending_lookups : Running(mac) # {})
  /\ [][\A f \in Frames :
          (f.pc \in PastGuard /\ Exit(f)) => f.mac \notin pending_lookups']_vars

\* C2 witness: since the process started a task passed the guard, wrote Pending
\* and called the rate limiter, no task is left, the row is still Pending (the
\* lookup ended without recording a result) and pending_lookups is empty.
C2_Witness ==
  /\ tasks = EmptyBag
  /\ pending_lookups = {}
  /\ last_request # 0
  /\ \E mac \in MACS : Attempted(mac) /\ Row(mac).manufacturer_status = "pending"

\* C3: with no reset request, a row with status Found keeps its status and its
\* label in every step.
C3_FoundIsFinal ==
  [][\A mac \in MACS :
       (Row(mac).present /\ Row(mac).manufacturer_status = "found")
         => /\ devices'[mac].manufacturer_status = "found"
            /\ devices'[mac].manufacturer = Row(mac).manufacturer]_vars

\* C4: needs_manufacturer_lookup follows the decision table: no row -> true;
\* Found with a label -> false; Unknown -> false; Error with a last attempt ->
\* true exactly when more than 300 s have passed (false at exactly 300 s);
\* Pending with no last attempt -> true.
C4_DecisionTable ==
  \A mac \in MACS :
    LET row == Row(mac)
        needs == needs_manufacturer_lookup(row, now)
    IN /\ ~row.present => needs
       /\ (row.present /\ row.manufacturer_status = "found"
             /\ row.manufacturer # None /\ row.manufacturer # S_Empty) => ~needs
       /\ (row.present /\ row.manufacturer_status = "unknown") => ~needs
       /\ (Attempted(mac) /\ row.manufacturer_status = "error" /\ Age(mac) > Cooldown)
            => needs
       /\ (Attempted(mac) /\ row.manufacturer_status = "error" /\ Age(mac) <= Cooldown)
            => ~needs
       /\ (row.present /\ row.manufacturer_status = "pending"
             /\ row.manufacturer_last_attempt = NoTime) => needs

\* C4 witness: an Error row whose last attempt is exactly 300 s old.
C4_Witness ==
  \E mac \in MACS :
    /\ Attempted(mac)
    /\ Row(mac).manufacturer_status = "error"
    /\ Age(mac) = Cooldown
    /\ ~needs_manufacturer_lookup(Row(mac), now)

\* C5: for a Pending row whose last attempt is at most 300 s old,
\* needs_manufacturer_lookup is false.
C5_PendingCooldown ==
  \A mac \in MACS :
    (Attempted(mac) /\ Row(mac).manufacturer_status = "pending" /\ Age(mac) <= Cooldown)
      => ~needs_manufacturer_lookup(Row(mac), now)

\* a Pending row whose last attempt is more than 300 s old
StalePending(mac) ==
  Attempted(mac) /\ Row(mac).manufacturer_status = "pending" /\ Age(mac) > Cooldown

\* C6: for a Pending row whose last attempt is more than 300 s old,
\* needs_manufacturer_lookup is true, and unless the MAC is in flight
\* GET /api/manufacturer/{mac} schedules a lookup (no reset is needed).
C6_StalePendingRetried ==
  \A mac \in MACS :
    StalePending(mac)
      => /\ needs_manufacturer_lookup(Row(mac), now)
         /\ mac \notin pending_lookups => GetSchedules(mac)

\* C6 witness: the process was restarted (the rate limiter is new and
\* pending_lookups empty), the row was left Pending more than 300 s ago, and a
\* lookup scheduled by GET is the only task.
C6_Witness ==
  \E mac \in MACS :
    /\ StalePending(mac)
    /\ last_request = 0
    /\ pending_lookups = {}
    /\ tasks = SetToBag({NewTask(mac, "get")})

\* C7: for an Error row whose last attempt is more than 300 s old and whose MAC
\* is not in flight, GET /api/manufacturer/{mac} schedules a lookup.
C7_StaleErrorRetried ==
  \A mac \in MACS :
    (Attempted(mac) /\ Row(mac).manufacturer_status = "error" /\ Age(mac) > Cooldown
       /\ mac \notin pending_lookups)
      => GetSchedules(mac)

\* a caller of the harness records a call start in this step
Records(c) == callers'[c].calls = callers[c].calls + 1

\* C8: with concurrent callers, every recorded call start is at least one
\* interval after the call start recorded before it.
C8_StartsSpaced ==
  [][\A c \in CallerIds : Records(c) => last_request' - last_request >= Interval]_vars

\* C9: N back-to-back calls of one caller take at least (N-1) * interval from
\* the start of the first call to the return of the last, and each call
\* returns at least one interval after the call start recorded before it.
C9_SequentialSpacing ==
  /\ [](callers[1].calls >= 1
          => last_request - callers[1].first >= (callers[1].calls - 1) * Interval)
  /\ [][Records(1) => last_request' - last_request >= Interval]_vars

\* C9 witness: MaxCalls calls returned, the last one exactly (MaxCalls - 1)
\* intervals after the first one started.
C9_Witness ==
  /\ callers[1].calls = MaxCalls
  /\ callers[1].pc = "idle"
  /\ last_request - callers[1].first = (MaxCalls - 1) * Interval

\* C10: a lookup never has issued more provider requests than it has made
\* rate-limiter acquisitions.
C10_AcquirePerRequest == \A f \in Frames : f.req <= f.acq

\* the row a lookup writes at time t: label, status, last attempt
Wrote(row, manufacturer, status, t) ==
  /\ row.present
  /\ row.manufacturer = manufacturer
  /\ row.manufacturer_status = status
  /\ row.manufacturer_last_attempt = t

\* C11: a lookup that passed the guard has made no rate-limiter call and sent
\* no provider request while it has not written Pending, and the step that
\* takes it to the rate limiter leaves the row Pending with no label and the
\* current time as last attempt.
C11_PendingBeforeOutbound ==
  /\ [](\A f \in Frames :
          f.pc \in {"start", "needs", "set_pending"} => f.acq = 0 /\ f.req = 0)
  /\ [][\A f \in Frames :
          (f.pc = "set_pending" /\ Step(f, [f EXCEPT !.pc = "rate"]))
            => Wrote(devices'[f.mac], None, "pending", now)]_vars

\* C11 witness: a task stands before the rate limiter, has sent nothing, and
\* the row is Pending with no label and the current time, which is later than
\* the start of the process.
C11_Witness ==
  \E f \in Frames :
    /\ f.pc = "rate" /\ f.acq = 0 /\ f.req = 0
    /\ Wrote(Row(f.mac), None, "pending", now)
    /\ now > Interval

\* a vendor name: a str that is not empty and holds neither "not found" nor
\* "error" in any letter case
VendorName(m) ==
  /\ m # None /\ m # NumberVal /\ m # S_Empty
  /\ ~Contains(Lower(m), S_notfound)
  /\ ~Contains(Lower(m), S_error)

\* the vendor names the providers of the model can answer with status 200
VendorAnswers ==
  { <<TextResponse(200, S_AcmeNl), 1, S_Acme>>,
    <<ListResponse(200, S_AcmeNl), 2, S_Acme>>,
    <<ListResponse(200, S_AcmeNl), 3, S_Acme>>,
    <<TextResponse(200, S_AcmeNl), 2, S_Acme>>,
    <<TextResponse(200, S_AcmeNl), 3, S_Acme>>,
    <<DictResponse(200, S_Acme, None), 2, S_Acme>>,
    <<DictResponse(200, S_Acme, None), 3, S_Acme>>,
    <<DictResponse(200, None, S_Acme), 2, S_Acme>>,
    <<DictResponse(200, None, S_Acme), 3, S_Acme>> }

\* C12: the providers are requested in the order of the list (the plain-text
\* endpoint first, then the two JSON endpoints, provider k after exactly k-1
\* requests); a 200 answer with a vendor name takes the lookup from provider k
\* straight to the write of that name, which records it with status Found and
\* is followed by no request; "Not Found" from provider 1 and {"company": X}
\* from provider 2 give label X.
C12_FirstVendorWins ==
  /\ [](/\ ~Contains(ApiUrls[1], S_maclookup)
        /\ Contains(ApiUrls[2], S_maclookup)
        /\ Contains(ApiUrls[3], S_maclookup)
        /\ \A v \in VendorAnswers : VendorName(v[3]))
  /\ [](\A f \in Frames :
          f.pc = "get"
            => /\ f.api \in 1..NumApis
               /\ f.req = f.api - 1
               /\ \A v \in VendorAnswers :
                    v[2] = f.api
                      => AfterResponse(f, v[1])
                           = [f EXCEPT !.pc = "set_found", !.api = 0,
                                       !.label = v[3], !.req = @ + 1]
               /\ f.api = 1
                    => LET g == AfterResponse(f, TextResponse(200, S_NotFound))
                           h == AfterResponse(g, DictResponse(200, S_Acme, None))
                       IN /\ g.pc = "get" /\ g.api = 2
                          /\ h.pc = "set_found" /\ h.label = S_Acme /\ h.req = 2)
  /\ [][\A f \in Frames :
          f.pc = "set_found"
            => \A g \in BagToSet(tasks') :
                 (Step(f, g) /\ g # f)
                   => /\ g.pc = "finally"
                      /\ g.req = f.req
                      /\ g.exc = "none"
                           => Wrote(devices'[f.mac], f.label, "found", now)]_vars

\* C12 witness: a lookup ended after two requests (provider 1 gave no vendor,
\* provider 2 did) and the row is Found with the vendor name.
C12_Witness ==
  \E f \in Frames :
    /\ f.pc = "finally" /\ f.exc = "none" /\ f.req = 2
    /\ Wrote(Row(f.mac), S_Acme, "found", now)

\* one provider failing: a transport error or timeout, a status other than
\* 200, an empty body, a "Not Found" body
ProviderFailures ==
  { TransportFailure, TextResponse(404, S_NotFound), TextResponse(429, S_Empty),
    TextResponse(200, S_Empty), DictResponse(200, None, None),
    TextResponse(200, S_NotFound) }

\* C13: when provider k fails (transport error or timeout, status other than
\* 200, empty body, "Not Found" body) and k is not the last provider, the
\* lookup goes on with the request to provider k+1, and a vendor name answered
\* by provider k+1 is then taken to the write with status Found.
C13_FailureDoesNotAbort ==
  \A f \in Frames :
    (f.pc = "get" /\ f.api < NumApis)
      => \A r \in ProviderFailures :
           LET g == AfterResponse(f, r)
           IN /\ g = [f EXCEPT !.api = f.api + 1, !.req = f.req + 1]
              /\ \A v \in VendorAnswers :
                   v[2] = g.api
                     => LET h == AfterResponse(g, v[1])
                        IN h.pc = "set_found" /\ h.label = v[3] /\ h.mac = f.mac

\* C13 witness: a lookup ended after three requests (providers 1 and 2 gave
\* no vendor, provider 3 did) and the row is Found with the vendor name.
C13_Witness ==
  \E f \in Frames :
    /\ f.pc = "finally" /\ f.exc = "none" /\ f.req = NumApis
    /\ Wrote(Row(f.mac), S_Acme, "found", now)

\* C14: with providers that all answer (no transport error) and yield no
\* vendor, a lookup reaches its final write after it requested every provider;
\* that write records label "Unknown" with status Unknown; no row ever has
\* status Error (or Found).
C14_NoVendorIsUnknown ==
  /\ [](\A mac \in MACS :
          Row(mac).present => Row(mac).manufacturer_status \in {"pending", "unknown"})
  /\ [](\A f \in Frames :
          /\ f.pc = "set_unknown" => f.req = NumApis
          /\ f.req = NumApis => f.pc \in {"set_unknown", "finally"})
  /\ [][\A f \in Frames :
          f.pc = "set_unknown"
            => \A g \in BagToSet(tasks') :
                 (Step(f, g) /\ g # f)
                   => /\ g.pc = "finally"
                      /\ g.exc = "none"
                           => Wrote(devices'[f.mac], S_Unknown, "unknown", now)]_vars

\* C14 witness: a lookup ended after every provider answered without a vendor
\* and the row is Unknown with label "Unknown".
C14_Witness ==
  \E f \in Frames :
    /\ f.pc = "finally" /\ f.exc = "none" /\ f.req = NumApis
    /\ Wrote(Row(f.mac), S_Unknown, "unknown", now)
    /\ now > Interval

\* C15: with the network down (every provider request of every lookup raises
\* a transport error), the final write of a lookup records status Error with
\* no label.
C15_TransportDownIsError ==
  [][\A f \in Frames :
       (f.pc = "set_unknown" /\ Step(f, [f EXCEPT !.pc = "finally"]))
         => Wrote(devices'[f.mac], None, "error", now)]_vars

\* C16: with the network down, every request of a lookup raises and the loop
\* goes on to the next provider; after the last one the lookup writes label
\* "Unknown" with status unknown, and no row is ever Found or Error.
C16_TransportDownIsUnknown ==
  /\ [](\A f \in Frames :
          /\ f.pc = "get" => AfterResponse(f, TransportFailure).pc \in {"get", "set_unknown"}
          /\ f.pc = "set_unknown" => f.req = NumApis
          /\ f.req = NumApis => f.pc \in {"set_unknown", "finally"})
  /\ [](\A mac \in MACS : Row(mac).manufacturer_status \notin {"found", "error"})
  /\ [][\A f \in Frames :
          (f.pc = "set_unknown" /\ Step(f, [f EXCEPT !.pc = "finally"]))
            => /\ f.req = NumApis
               /\ Wrote(devices'[f.mac], S_Unknown, "unknown", now)]_vars

\* C16 witness: with the network down a lookup sent its three requests and
\* ended, the row is Unknown with label "Unknown", and no other task is left.
C16_Witness ==
  \E f \in Frames :
    /\ tasks = SetToBag({f})
    /\ f.pc = "finally" /\ f.exc = "none" /\ f.req = NumApis
    /\ Wrote(Row(f.mac), S_Unknown, "unknown", now)

\* the answer of a provider that limits the caller's rate
TooManyRequests == TextResponse(429, S_Empty)

\* C17: when a provider answers 429 the lookup neither requests another
\* provider nor goes to the Unknown write.
C17_ThrottledStops ==
  \A f \in Frames :
    f.pc = "get" => AfterResponse(f, TooManyRequests).pc \notin {"get", "set_unknown"}

\* C18: no row is Found with a label that holds "not found" or "error" in any
\* letter case.
C18_SentinelAnyCase ==
  \A mac \in MACS :
    (Row(mac).present /\ Row(mac).manufacturer_status = "found"
       /\ Row(mac).manufacturer # None)
      => /\ ~Contains(Lower(Row(mac).manufacturer), S_notfound)
         /\ ~Contains(Lower(Row(mac).manufacturer), S_error)

\* how many tasks are scheduled by handler `by` for mac and have not started
Scheduled(bag, mac, by) ==
  IF NewTask(mac, by) \in BagToSet(bag) THEN CopiesIn(NewTask(mac, by), bag) ELSE 0

\* C19: a step of POST /api/manufacturer/{mac}/retry on an existing row,
\* whatever its status, leaves the row Pending with no last-attempt time, and
\* adds one lookup task for that MAC.
C19_ResetOne ==
  [][\A mac \in MACS :
       RetryManufacturerLookup(mac)
         => /\ Row(mac).present
                 => /\ devices'[mac].present
                    /\ devices'[mac].manufacturer_status = "pending"
                    /\ devices'[mac].manufacturer_last_attempt = NoTime
            /\ Scheduled(tasks', mac, "retry") = Scheduled(tasks, mac, "retry") + 1]_vars

\* C19 witness: a row that was Found (it still carries the vendor name) is
\* Pending with no last-attempt time and a task scheduled by the retry request
\* waits to start.
C19_Witness ==
  \E mac \in MACS :
    /\ Row(mac).present
    /\ Row(mac).manufacturer_status = "pending"
    /\ Row(mac).manufacturer_last_attempt = NoTime
    /\ Row(mac).manufacturer = S_Acme
    /\ Scheduled(tasks, mac, "retry") = 1

\* the rows a step changed
Changed == {m \in DOMAIN devices : devices'[m] # devices[m]}

\* C20: a step of POST /api/manufacturer/retry leaves every row that was Error
\* or Unknown Pending with no last-attempt time and its other columns as they
\* were, leaves every other row (Found, Pending, absent) as it was, and the
\* count it returns is the number of rows it changed.
C20_ResetFailed ==
  [][RetryFailedLookups
       => /\ \A m \in DOMAIN devices :
               IF devices[m].present
                    /\ devices[m].manufacturer_status \in {"error", "unknown"}
                 THEN /\ devices'[m].manufacturer_status = "pending"
                      /\ devices'[m].manufacturer_last_attempt = NoTime
                      /\ devices'[m].present
                      /\ devices'[m].name = devices[m].name
                      /\ devices'[m].notify = devices[m].notify
                      /\ devices'[m].manufacturer = devices[m].manufacturer
                 ELSE devices'[m] = devices[m]
          /\ retry_failed_count(devices) = Cardinality(Changed)]_vars

\* C20 witness: of two rows, the one that was Unknown (it still carries the
\* label "Unknown") is Pending with no last-attempt time, and the Found row
\* still has its status, label and last-attempt time.
C20_Witness ==
  /\ devices["m1"].present
  /\ devices["m1"].manufacturer_status = "pending"
  /\ devices["m1"].manufacturer = S_Unknown
  /\ devices["m1"].manufacturer_last_attempt = NoTime
  /\ Wrote(devices["m2"], S_Acme, "found", Interval)

C22_GetSchedulesOnlyWhenNeeded ==
  [][\A mac \in MACS :
       Scheduled(tasks', mac, "get") > Scheduled(tasks, mac, "get")
         => /\ ~Truthy(db_get_manufacturer(Row(mac)))
            /\ needs_manufacturer_lookup(Row(mac), now)
            /\ mac \notin pending_lookups]_vars

\* C22 witness: GET scheduled a task for a stored row that was never looked
\* up, while no lookup for the MAC is in flight.
C22_Witness ==
  \E mac \in MACS :
    /\ Row(mac) = NewDevice(None)
    /\ pending_lookups = {}
    /\ tasks = SetToBag({NewTask(mac, "get")})
    /\ now > Interval

\* the handlers of POST /api/events in flight
EventFrames == {f \in HandlerFrames : f.kind = "event"}

\* C23: every handler of POST /api/events that has answered has answered 204,
\* whatever the content type, the body, the action and the mac were and
\* whether the store or the notifier raised; no event is answered otherwise.
C23_AlwaysNoContent ==
  /\ \A f \in EventFrames :
       /\ f.pc = "done" => f.status = 204
       /\ f.pc # "done" => f.status = 0
  /\ \A e \in Events :
       receive_event(e).pc = "done" => receive_event(e).status = 204

\* C23 witness: two events are answered 204, one whose body could not be
\* parsed and one for which the store raised.
C23_Witness ==
  \E f, g \in EventFrames :
    /\ f.pc = "done" /\ f.exc = "json" /\ f.status = 204
    /\ g.pc = "done" /\ g.exc = "store" /\ g.status = 204

S_pc == <<"p","c">>

\* C24: the host a handler carries is the trimmed host of its event; when the
\* add_device call of an event succeeds for a MAC with no row, the row exists
\* afterwards with the host as name (no name when the host is empty), notify
\* false and the current time as last_seen; for a MAC with a row, last_seen
\* becomes the current time, a stored non-empty name stays, a row without a
\* name gets the host when it is not empty, and no other column changes.
C24_IngestUpsert ==
  /\ [](\A f \in EventFrames :
          f.pc # "done"
            => /\ f.name = (IF f.event.host = S_pcPadded THEN S_pc ELSE S_Empty)
               /\ f.mac = f.event.mac)
  /\ [][\A f \in EventFrames :
          (f.pc = "add_device" /\ HStep(f, AfterAddDevice(f)))
            => LET old == devices[f.mac]
                   new == devices'[f.mac]
               IN /\ new.present
                  /\ last_seen'[f.mac] = now
                  /\ ~old.present
                       => new = [present |-> TRUE,
                                 name |-> IF f.name = S_Empty THEN None ELSE f.name,
                                 notify |-> FALSE, manufacturer |-> None,
                                 manufacturer_status |-> "pending",
                                 manufacturer_last_attempt |-> NoTime]
                  /\ old.present
                       => /\ new = [old EXCEPT !.name = new.name]
                          /\ new.name = IF old.name # None /\ old.name # S_Empty
                                           THEN old.name
                                         ELSE IF f.name # S_Empty THEN f.name
                                         ELSE old.name]_vars

\* C24 witness: a row named by an update keeps its name after an event with
\* another host was ingested later (last_seen is the current time, the
\* handler goes on without notification).
C24_Witness ==
  \E f \in EventFrames :
    /\ f.pc = "done" /\ f.exc = "none" /\ f.name = S_pc
    /\ f.device.present
    /\ Row(f.mac).name = S_tv
    /\ last_seen[f.mac] = now
    /\ now > Interval

\* the event of the handler reached process_device_event
Processed(f) == receive_event(f.event).pc = "get_device"

\* C25: a handler of POST /api/events has fired at most one notification; it
\* fired the unknown-device notification only if get_device returned no row
\* and the tracked-device notification only if it returned a row with notify
\* true; and a handler that processed its event to the end with no exception
\* fired the unknown-device notification if there was no row, the
\* tracked-device notification if the row had notify true, and none if the
\* row had notify false.
C25_OneNotification ==
  \A f \in EventFrames :
    /\ f.fired \in {<<>>, <<"unknown">>, <<"tracked">>}
    /\ f.fired = <<"unknown">> => ~f.device.present
    /\ f.fired = <<"tracked">> => f.device.present /\ f.device.notify
    /\ (Processed(f) /\ f.pc = "done" /\ f.exc = "none")
         => f.fired = IF ~f.device.present THEN <<"unknown">>
                      ELSE IF f.device.notify THEN <<"tracked">>
                      ELSE <<>>

\* C25 witness: an event fired the tracked-device notification for the row it
\* read at its start, although an update has set notify to false since.
C25_Witness ==
  \E f \in EventFrames :
    /\ f.pc = "done" /\ f.fired = <<"tracked">>
    /\ Row(f.mac).present /\ ~Row(f.mac).notify

\* an "assigned" event with a MAC, sent as a JSON object
WellFormed(e) ==
  /\ StartsWith(e.ctype, S_json)
  /\ e.body = "dict"
  /\ e.action = "assigned"
  /\ e.mac \in MACS

\* C26: the handler of an event that is not a well-formed "assigned" event
\* with a MAC is at its answer from the moment the event arrives: it never
\* stands at a store call or a notifier call, has read no row and has fired
\* no notification.
C26_MalformedTouchesNothing ==
  /\ \A e \in Events :
       ~WellFormed(e)
         => /\ receive_event(e).pc = "done"
            /\ receive_event(e).fired = <<>>
  /\ \A f \in EventFrames :
       ~WellFormed(f.event)
         => /\ f.pc = "done"
            /\ f.device = NoDevice
            /\ f.fired = <<>>
            /\ f.exc \in {"none", "json", "attribute"}

\* C26 witness: events with another action, with no mac and with another
\* content type have been answered and there is still no row for the MAC.
C26_Witness ==
  \E f, g \in EventFrames :
    /\ f.pc = "done" /\ f.event.action = "released"
    /\ g.pc = "done" /\ g.event.mac = "<None>" /\ g.event.action = "assigned"
    /\ \A mac \in MACS : ~Row(mac).present /\ last_seen[mac] = NoTime

\* the handlers of PUT /api/devices/{mac}
PutFrames == {f \in HandlerFrames : f.kind = "put"}

\* C27: PUT /api/devices/{mac} is a partial update.  A handler that answers
\* 200 leaves a row behind; and in every step a row is created only by a
\* handler that found none, as the new row with the name of the body; the
\* name of a row changes only to the name a body supplied (written by
\* set_device_name, or by the add_device of a handler that found no row when
\* it looked), its flag only to the flag a body supplied; the manufacturer fields of a row never change.
C27_PartialUpdate ==
  /\ [](\A f \in PutFrames : f.status = 200 => Row(f.mac).present)
  /\ [][\A mac \in MACS :
          /\ devices[mac].present => devices'[mac].present
          /\ devices[mac].present =>
               /\ devices'[mac].manufacturer = devices[mac].manufacturer
               /\ devices'[mac].manufacturer_status = devices[mac].manufacturer_status
               /\ devices'[mac].manufacturer_last_attempt
                    = devices[mac].manufacturer_last_attempt
          /\ (~devices[mac].present /\ devices'[mac].present) =>
               \E f \in PutFrames :
                 /\ f.mac = mac /\ f.pc = "add_device"
                 /\ devices'[mac] = NewDevice(f.name)
          /\ (devices[mac].present /\ devices'[mac].name # devices[mac].name) =>
               \E f \in PutFrames :
                 /\ f.mac = mac /\ f.pc \in {"add_device", "set_name"}
                 /\ f.name # None /\ devices'[mac].name = f.name
          /\ (devices[mac].present /\ devices'[mac].notify # devices[mac].notify) =>
               \E f \in PutFrames :
                 /\ f.mac = mac /\ f.pc = "set_notify"
                 /\ f.notify # "unset" /\ devices'[mac].notify = (f.notify = "true")]_vars

\* C27 witness: a PUT with an empty body has been answered 200 on a row that
\* holds a vendor name and that earlier PUTs gave a name and the flag.
C27_Witness ==
  \E f \in PutFrames :
    /\ f.pc = "done" /\ f.status = 200
    /\ f.name = None /\ f.notify = "unset"
    /\ Row(f.mac).present
    /\ Row(f.mac).name = S_tv /\ Row(f.mac).notify
    /\ Row(f.mac).manufacturer_status = "found" /\ Row(f.mac).manufacturer = S_Acme

\* C28: a row whose status is Found holds a label that is a non-empty text,
\* and so does a lookup that is about to write Found.
C28_FoundHasLabel ==
  /\ \A mac \in MACS :
       (Row(mac).present /\ Row(mac).manufacturer_status = "found")
         => /\ Row(mac).manufacturer # None
            /\ Truthy(Row(mac).manufacturer)
  /\ \A f \in Frames : f.pc = "set_found" => f.label # None /\ Truthy(f.label)

\* C28 witness: a lookup has recorded a vendor name as Found.
C28_Witness ==
  \E mac \in MACS :
    /\ Row(mac).present /\ Row(mac).manufacturer_status = "found"
    /\ Row(mac).manufacturer = S_Acme
    /\ Row(mac).manufacturer_last_attempt # NoTime

\* C29: a row whose status is Unknown holds the label "Unknown".
C29_UnknownHasSentinel ==
  \A mac \in MACS :
    (Row(mac).present /\ Row(mac).manufacturer_status = "unknown")
      => Row(mac).manufacturer = S_Unknown

\* C29 witness: a lookup has recorded Unknown with the label "Unknown" at a
\* time later than the start, where no row existed.
C29_Witness ==
  \E mac \in MACS :
    /\ Row(mac).present /\ Row(mac).manufacturer_status = "unknown"
    /\ Row(mac).manufacturer = S_Unknown
    /\ Row(mac).manufacturer_last_attempt > 0

\* C30: a row whose status is Pending or Error holds no label.
C30_LabelOnlyWhenSettled ==
  \A mac \in MACS :
    (Row(mac).present /\ Row(mac).manufacturer_status \in {"pending", "error"})
      => Row(mac).manufacturer = None

\* the frame of task f after its write to the store succeeded (lines 52, 72, 81)
AfterWrite(f) ==
  IF f.pc = "set_pending" THEN [f EXCEPT !.pc = "rate"]
  ELSE [f EXCEPT !.pc = "finally", !.label = None]

\* task f makes its write to the store in this step
LookupWrites(f) ==
  /\ f.pc \in {"set_pending", "set_found", "set_unknown"}
  /\ Step(f, AfterWrite(f))

C32_CreatedByIngestOnly ==
  [][\A mac \in MACS :
       (~devices[mac].present /\ devices'[mac].present)
         => \E host \in Hosts : ReceiveEvent(mac, host)]_vars

\* C33: two spellings of one MAC that differ in letter case only never have
\* a row each.
C33_CaseNormalized ==
  \A k1, k2 \in CaseMACS :
    (devices[k1].present /\ devices[k2].present
       /\ Lower(Chars[k1]) = Lower(Chars[k2])) => k1 = k2

\* rows of every status with no label, an empty label, a vendor name and the
\* label "Unknown", and no row
CachedRows ==
  {NoDevice} \cup
  { [NewDevice(None) EXCEPT !.manufacturer = m, !.manufacturer_status = st] :
      m \in {None, S_Empty, S_Acme, S_Unknown},
      st \in {"pending", "found", "unknown", "error"} }

\* C34: for the row of every MAC, and for every row of the four statuses with
\* or without a label, db.get_manufacturer gives the label when the row is
\* Found with a non-empty label, "Unknown" when it is Unknown or Error, and
\* nothing when there is no row or the row is Pending or Found with no label;
\* GET answers "Loading..." in the last case and the cached answer otherwise.
C34_CachedAnswer ==
  \A row \in CachedRows \cup {Row(mac) : mac \in MACS} :
    LET labelled == row.manufacturer # None /\ row.manufacturer # S_Empty
    IN /\ (row.present /\ row.manufacturer_status = "found" /\ labelled)
            => /\ db_get_manufacturer(row) = row.manufacturer
               /\ get_manufacturer_answer(row) = row.manufacturer
       /\ (row.present /\ row.manufacturer_status \in {"unknown", "error"})
            => /\ db_get_manufacturer(row) = S_Unknown
               /\ get_manufacturer_answer(row) = S_Unknown
       /\ (\/ ~row.present
           \/ row.manufacturer_status = "pending"
           \/ row.manufacturer_status = "found" /\ ~labelled)
            => /\ db_get_manufacturer(row) = None
               /\ get_manufacturer_answer(row) = S_Loading

\* C34 witness: the row of a MAC is Error with a recorded attempt whose
\* cooldown is over, so that a lookup is due, and the cached answer is "Unknown".
C34_Witness ==
  \E mac \in MACS :
    /\ Row(mac).present /\ Row(mac).manufacturer_status = "error"
    /\ Attempted(mac) /\ Age(mac) > Cooldown
    /\ needs_manufacturer_lookup(Row(mac), now)
    /\ db_get_manufacturer(Row(mac)) = S_Unknown
    /\ get_manufacturer_answer(Row(mac)) = S_Unknown

\* the task with frame f takes a step (the process goes on running)
Moves(f) == CopiesIn(f, tasks') < CopiesIn(f, tasks) /\ ~Restart

\* C35: a task that has not passed line 46 has called neither the rate
\* limiter nor a provider; and when needs_manufacturer_lookup answers that the
\* row needs no lookup (Found with a label, Unknown, Error inside the
\* cooldown), the step of the task ends it and leaves the table,
\* pending_lookups and the rate limiter as they were.
C35_NoLookupNoEffect ==
  /\ [](\A f \in Frames : f.pc \in {"start", "needs"} => f.acq = 0 /\ f.req = 0)
  /\ [][\A f \in Frames :
          (f.pc = "needs" /\ ~needs_manufacturer_lookup(devices[f.mac], now)
             /\ Moves(f))
            => /\ Exit(f)
               /\ UNCHANGED <<devices, pending_lookups, last_request, last_seen>>]_vars

\* C35 witness: a task waits for the answer of needs_manufacturer_lookup while
\* the row is Found with a label and no lookup for the MAC is in flight.
C35_Witness ==
  \E f \in Frames :
    /\ f.pc = "needs"
    /\ Row(f.mac).present /\ Row(f.mac).manufacturer_status = "found"
    /\ Truthy(Row(f.mac).manufacturer)
    /\ ~needs_manufacturer_lookup(Row(f.mac), now)
    /\ f.mac \notin pending_lookups

\* C36: the task that POST /api/manufacturer/{mac}/retry schedules is not
\* turned away when it starts: its first step takes it past the in-flight
\* test to the lookup attempt, whatever else is running for the MAC.
C36_RetryStartsLookup ==
  [][\A mac \in MACS :
       (NewTask(mac, "retry") \in Frames /\ Moves(NewTask(mac, "retry")))
         => Step(NewTask(mac, "retry"),
                 [NewTask(mac, "retry") EXCEPT !.pc = "needs", !.by = "-"])]_vars

\* C37: no row has status Error, and no task has left the provider loop by
\* an exception other than one of the store or of the test of lines 70-71:
\* a transport error never reaches the handler of line 83.
C37_ErrorUnreachable ==
  /\ \A mac \in MACS : Row(mac).manufacturer_status # "error"
  /\ \A f \in Frames :
       /\ f.exc \in {"none", "store", "type"}
       /\ f.pc = "get" =>
            AfterResponse(f, TransportFailure).pc \in {"get", "set_unknown"}

\* C37 witness: a lookup is at its last provider request, where a transport
\* error takes it to the Unknown write, on the row it stamped Pending.
C37_Witness ==
  \E f \in Frames :
    /\ f.pc = "get" /\ f.api = NumApis
    /\ AfterResponse(f, TransportFailure).pc = "set_unknown"
    /\ Row(f.mac).manufacturer_status = "pending"
    /\ Attempted(f.mac)

\* the handlers of events for mac that are about to send, or have sent, the
\* unknown-device notification
UnknownSenders(mac) ==
  {f \in HandlerFrames :
     /\ f.kind = "event" /\ f.mac = mac
     /\ (f.pc = "notify_unknown" \/ f.fired = <<"unknown">>)}

\* C38: of the handlers of events for one MAC that are in flight together, at
\* most one sends the unknown-device notification.
C38_OneUnknownPerMac ==
  \A mac \in MACS :
    BagCardinality([f \in UnknownSenders(mac) |-> CopiesIn(f, handlers)]) <= 1

\* C39: a handler of an event for a MAC that no event and no update has
\* written yet has read no row, whatever queries and lookups came before: its
\* add_device call creates the row and it goes on to the unknown-device
\* notification.
C39_FirstIngestIsUnknown ==
  \A f \in HandlerFrames :
    (f.kind = "event" /\ f.pc = "add_device" /\ last_seen[f.mac] = NoTime)
      => /\ ~f.device.present
         /\ AfterAddDevice(f).pc = "notify_unknown"

\* C40: while the store does not fail, once no task for a MAC is past the
\* guard, a row that a lookup has stamped is Found, Unknown or Error, not
\* Pending, and the MAC is not in pending_lookups.
C40_EndsSettled ==
  \A mac \in MACS :
    (NumRunning(mac) = 0 /\ Attempted(mac))
      => /\ Row(mac).manufacturer_status \in {"found", "unknown", "error"}
         /\ mac \notin pending_lookups

====
